---- MODULE Spec2Model ----
(***************************************************************************)
(* A model of the shop registry of simple-products-search-py/sps.py: the   *)
(* `shop` table of the datastore, and the commands that change it          *)
(* (connect_db, shop create, shop delete, shop import).                    *)
(*                                                                         *)
(* Python strings are sequences of one-character strings.  The table is a  *)
(* bag of rows [slug, hostname, name]: a relational table is a multiset,   *)
(* and a table without constraints can hold the same row twice.            *)
(***************************************************************************)
EXTENDS Integers, Sequences, FiniteSets, Bags, TLC

(***************************************************************************)
(* Python's str and re primitives used by sps.py.                          *)
(***************************************************************************)
Lowers == <<"a","b","c","d","e","f","g","h","i","j","k","l","m",
            "n","o","p","q","r","s","t","u","v","w","x","y","z">>

Uppers == <<"A","B","C","D","E","F","G","H","I","J","K","L","M",
            "N","O","P","Q","R","S","T","U","V","W","X","Y","Z">>

Digits == {"0","1","2","3","4","5","6","7","8","9"}

Range(s) == {s[i] : i \in 1..Len(s)}

UpperLetters == Range(Uppers)

Letters == Range(Lowers) \cup UpperLetters

\* str.lower() on one character (ASCII).
LowerChar(c) ==
    IF c \in UpperLetters THEN Lowers[CHOOSE i \in 1..26 : Uppers[i] = c] ELSE c

\* str.lower()
Lower(s) == SubSeq([i \in 1..Len(s) |-> LowerChar(s[i])], 1, Len(s))

\* s * n, for a one-character s
Repeat(s, n) == SubSeq([i \in 1..n |-> s[1]], 1, n)

\* str.startswith(p)
StartsWith(s, p) == Len(s) >= Len(p) /\ SubSeq(s, 1, Len(p)) = p

\* The characters str.strip() removes (whitespace), as far as the inputs use them.
Whitespace == {" ", "\t"}

RECURSIVE StripLeft(_, _)
StripLeft(s, cs) ==
    IF s # <<>> /\ Head(s) \in cs THEN StripLeft(Tail(s), cs) ELSE s

RECURSIVE StripRight(_, _)
StripRight(s, cs) ==
    IF s # <<>> /\ s[Len(s)] \in cs
    THEN StripRight(SubSeq(s, 1, Len(s) - 1), cs)
    ELSE s

\* str.strip(): leading and trailing whitespace removed.
Strip(s) == StripRight(StripLeft(s, Whitespace), Whitespace)

\* str.find(c) for a set of characters: the first position holding one of
\* them, 0 when there is none (Python's -1).
RECURSIVE FindFrom(_, _, _)
FindFrom(s, cs, i) ==
    IF i > Len(s) THEN 0
    ELSE IF s[i] \in cs THEN i
    ELSE FindFrom(s, cs, i + 1)

Find(s, cs) == FindFrom(s, cs, 1)

\* str.split(".")
RECURSIVE Split(_, _)
Split(s, c) ==
    LET i == Find(s, {c})
    IN  IF i = 0 THEN <<s>>
        ELSE <<SubSeq(s, 1, i - 1)>> \o Split(SubSeq(s, i + 1, Len(s)), c)

\* The class [a-z0-9] of normalize_into_slug's pattern.
SlugChars == Range(Lowers) \cup Digits

\* re.sub(r"[^a-z0-9]+", "-", s): every maximal run of other characters
\* becomes one hyphen (the run's first character does, the rest of the run
\* goes).
ReSub(s) ==
    LET marked == [i \in 1..Len(s) |->
                     IF s[i] \in SlugChars THEN s[i]
                     ELSE IF i = 1 \/ s[i - 1] \in SlugChars THEN "-"
                     ELSE ""]
    IN  SelectSeq(marked, LAMBDA c : c # "")

normalize_into_slug(slug) ==
    StripRight(StripLeft(ReSub(Lower(slug)), {"-"}), {"-"})

extract_slug_from_url(url) ==
    LET parts == Split(url, ".")
    IN  IF Len(parts) > 2 THEN parts[Len(parts) - 1]
        ELSE IF Len(parts) = 2 THEN parts[1]
        ELSE url

(***************************************************************************)
(* urllib.parse.urlparse, as far as create_shop and is_valid_url read it:  *)
(* the scheme, the network location, and the ValueError of an unbalanced   *)
(* bracket in the network location.                                        *)
(***************************************************************************)
SchemeChars == Letters \cup Digits \cup {"+", "-", "."}

HttpPrefix == <<"h","t","t","p",":","/","/">>

HttpsPrefix == <<"h","t","t","p","s",":","/","/">>

WwwPrefix == <<"w","w","w",".">>

urlparse(url) ==
    LET i         == Find(url, {":"})
        hasScheme == /\ i > 1
                     /\ url[1] \in Letters
                     /\ \A k \in 1..(i - 1) : url[k] \in SchemeChars
        scheme    == IF hasScheme THEN Lower(SubSeq(url, 1, i - 1)) ELSE <<>>
        rest      == IF hasScheme THEN SubSeq(url, i + 1, Len(url)) ELSE url
        hasNetloc == StartsWith(rest, <<"/", "/">>)
        after     == IF hasNetloc THEN SubSeq(rest, 3, Len(rest)) ELSE <<>>
        j         == Find(after, {"/", "?", "#"})
        netloc    == IF j = 0 THEN after ELSE SubSeq(after, 1, j - 1)
        error     == ("[" \in Range(netloc)) # ("]" \in Range(netloc))
    IN  [scheme |-> scheme, netloc |-> netloc, error |-> error]

\* identifier if identifier.startswith(("http://", "https://")) else "http://" + identifier
WithScheme(url) ==
    IF StartsWith(url, HttpPrefix) \/ StartsWith(url, HttpsPrefix)
    THEN url
    ELSE HttpPrefix \o url

is_valid_url(url) ==
    LET result == urlparse(WithScheme(url))
    IN  IF result.error THEN FALSE
        ELSE result.scheme # <<>> /\ result.netloc # <<>>

\* The hostname without the lowering.
canonical_hostname_keeps_case(identifier) ==
    LET hostname == urlparse(WithScheme(identifier)).netloc
    IN  IF StartsWith(hostname, WwwPrefix)
        THEN SubSeq(hostname, 5, Len(hostname))
        ELSE hostname

\* Lines 84-91 of create_shop: the hostname of a valid identifier.
canonical_hostname(identifier) ==
    LET hostname == Lower(urlparse(WithScheme(identifier)).netloc)
    IN  IF StartsWith(hostname, WwwPrefix)
        THEN SubSeq(hostname, 5, Len(hostname))
        ELSE hostname

(***************************************************************************)
(* The datastore.  db = [rows, constrained, hostIndex]: the rows of table  *)
(* shop, whether the table carries slug PRIMARY KEY and hostname UNIQUE,   *)
(* and whether index idx_shop_hostname exists.  The SQL statements are     *)
(* modelled by their SQL meaning.                                          *)
(***************************************************************************)
Row(slug, hostname, name) == [slug |-> slug, hostname |-> hostname, name |-> name]

\* An optional argument: Python's None, or a string.
None == [some |-> FALSE, val |-> <<>>]

Some(s) == [some |-> TRUE, val |-> s]

\* Python truthiness of an optional string: None and "" are both falsy.
Truthy(opt) == opt.some /\ opt.val # <<>>

\* The bag B without the rows outside the set keep: a WHERE clause.
BagSelect(B, keep) ==
    B (-) [r \in BagToSet(B) \ keep |-> CopiesIn(r, B)]

\* SELECT COUNT(*) FROM shop WHERE slug = ? OR hostname = ?
CountSlugOrHostname(rows, slug, hostname) ==
    BagCardinality(BagSelect(rows,
        {r \in BagToSet(rows) : r.slug = slug \/ r.hostname = hostname}))

\* The conflict check with the hostname forgotten.
check_shop_creation_conflict_slug_only(db, slug, hostname) ==
    BagCardinality(BagSelect(db.rows, {r \in BagToSet(db.rows) : r.slug = slug})) > 0

check_shop_creation_conflict(db, slug, hostname) ==
    CountSlugOrHostname(db.rows, slug, hostname) > 0

\* INSERT INTO shop VALUES (...): a constrained table refuses a row whose
\* slug or hostname is already there (a constraint error), any other table
\* takes it.
Insert(db, row) ==
    IF db.constrained /\ CountSlugOrHostname(db.rows, row.slug, row.hostname) > 0
    THEN [db |-> db, err |-> "StorageError"]
    ELSE [db |-> [db EXCEPT !.rows = @ (+) SetToBag({row})], err |-> "none"]

\* INSERT OR REPLACE INTO shop, one row: on a constrained table the rows the
\* new one conflicts with are replaced by it; a table without constraints
\* has no conflict to replace on, and the row is appended.
InsertOrReplace(db, row) ==
    IF db.constrained
    THEN [db EXCEPT !.rows =
            BagSelect(@,
                {r \in BagToSet(@) : r.slug # row.slug /\ r.hostname # row.hostname})
                (+) SetToBag({row})]
    ELSE [db EXCEPT !.rows = @ (+) SetToBag({row})]

\* DELETE FROM shop WHERE slug = ?, with the statement's rowcount.
DeleteWhereSlug(db, slug) ==
    [db       |-> [db EXCEPT !.rows = BagSelect(@, {r \in BagToSet(@) : r.slug # slug})],
     rowcount |-> BagCardinality(BagSelect(db.rows,
                    {r \in BagToSet(db.rows) : r.slug = slug}))]

\* A connect_db that would recreate the table with its constraints.
connect_db_reinstating(db) == [db EXCEPT !.hostIndex = TRUE, !.constrained = TRUE]

\* connect_db on a store that holds table shop: CREATE TABLE IF NOT EXISTS
\* leaves the table as it is, CREATE INDEX IF NOT EXISTS makes the
\* (non-unique) hostname index if it is missing.
connect_db(db) == [db EXCEPT !.hostIndex = TRUE]

\* The store connect_db makes of an empty datastore file.
EmptyStore == [rows |-> EmptyBag, constrained |-> TRUE, hostIndex |-> TRUE]

(***************************************************************************)
(* shop create                                                             *)
(***************************************************************************)
MinSlugLen == 2

MaxSlugLen == 128

CreateFailed(db, err) ==
    [db |-> db, err |-> err, slug |-> <<>>, hostname |-> <<>>]

\* create_store with the length check after the insert.
create_store_late_length_check(db, slug, hostname, name) ==
    IF check_shop_creation_conflict(db, slug, hostname)
    THEN CreateFailed(db, "DuplicateShop")
    ELSE LET ins == Insert(db, Row(slug, hostname, IF Truthy(name) THEN name.val ELSE <<>>))
         IN  IF Len(slug) < MinSlugLen \/ Len(slug) > MaxSlugLen
             THEN CreateFailed(ins.db, "SlugLengthOutOfRange")
             ELSE [db |-> ins.db, err |-> ins.err, slug |-> slug, hostname |-> hostname]

\* Lines 103-115: the length check, the conflict check and the insert.
create_store(db, slug, hostname, name) ==
    IF Len(slug) < MinSlugLen \/ Len(slug) > MaxSlugLen
    THEN CreateFailed(db, "SlugLengthOutOfRange")
    ELSE IF check_shop_creation_conflict(db, slug, hostname)
    THEN CreateFailed(db, "DuplicateShop")
    ELSE LET ins == Insert(db, Row(slug, hostname, IF Truthy(name) THEN name.val ELSE <<>>))
         IN  [db |-> ins.db, err |-> ins.err, slug |-> slug, hostname |-> hostname]

\* Lines 93-102: the slug create_shop goes on with, or the error it raises.
resolve_slug(slug, hostname) ==
    IF ~Truthy(slug)
    THEN [err |-> "none",
          slug |-> Strip(normalize_into_slug(extract_slug_from_url(hostname)))]
    ELSE IF Strip(slug.val) = <<>>
    THEN [err |-> "EmptySlug", slug |-> <<>>]
    ELSE IF Strip(slug.val) # normalize_into_slug(slug.val)
    THEN [err |-> "InvalidSlugFormat", slug |-> <<>>]
    ELSE [err |-> "none", slug |-> Strip(slug.val)]

\* Lines 74-91: the identifier's checks and its hostname.
parse_hostname(identifier) ==
    IF identifier = <<>>
    THEN [err |-> "EmptyIdentifier", hostname |-> <<>>]
    ELSE IF ~is_valid_url(identifier)
    THEN [err |-> "InvalidIdentifier", hostname |-> <<>>]
    ELSE [err |-> "none", hostname |-> canonical_hostname(identifier)]

create_shop(db, identifier, slug, name) ==
    LET parsed   == parse_hostname(identifier)
        resolved == resolve_slug(slug, parsed.hostname)
    IN  IF parsed.err # "none"
        THEN CreateFailed(db, parsed.err)
        ELSE IF resolved.err # "none"
        THEN CreateFailed(db, resolved.err)
        ELSE create_store(db, resolved.slug, parsed.hostname, name)

(***************************************************************************)
(* shop delete                                                             *)
(***************************************************************************)
\* delete_shop reporting a deletion whatever the rowcount.
delete_shop_always_reports(db, slug) ==
    LET result == DeleteWhereSlug(db, slug)
    IN  [db |-> result.db, deleted |-> result.rowcount >= 0]

delete_shop(db, slug) ==
    LET result == DeleteWhereSlug(db, slug)
    IN  [db |-> result.db, deleted |-> result.rowcount > 0]

(***************************************************************************)
(* shop import.  A file is [path, rows]: its name and the rows it holds.   *)
(***************************************************************************)
EndsWith(s, p) ==
    Len(s) >= Len(p) /\ SubSeq(s, Len(s) - Len(p) + 1, Len(s)) = p

CsvSuffix == <<".", "c", "s", "v">>

JsonSuffix == <<".", "j", "s", "o", "n">>

Supported(file) == EndsWith(file.path, CsvSuffix) \/ EndsWith(file.path, JsonSuffix)

\* INSERT OR REPLACE INTO shop SELECT * FROM <the file's rows>
RECURSIVE LoadRows(_, _, _)
LoadRows(db, rows, i) ==
    IF i > Len(rows) THEN db
    ELSE LoadRows(InsertOrReplace(db, rows[i]), rows, i + 1)

\* The loop ending at the first unsupported file.
RECURSIVE ImportLoopAbort(_, _, _)
ImportLoopAbort(st, files, i) ==
    IF i > Len(files) THEN st
    ELSE IF Supported(files[i])
    THEN ImportLoopAbort([st EXCEPT !.db = LoadRows(@, files[i].rows, 1)], files, i + 1)
    ELSE [st EXCEPT !.skipped = @ + 1]

\* Lines 160-179: the loop over the files; st = [db, skipped].
RECURSIVE ImportLoop(_, _, _)
ImportLoop(st, files, i) ==
    IF i > Len(files) THEN st
    ELSE IF Supported(files[i])
    THEN ImportLoop([st EXCEPT !.db = LoadRows(@, files[i].rows, 1)], files, i + 1)
    ELSE ImportLoop([st EXCEPT !.skipped = @ + 1], files, i + 1)

\* Lines 155-157: DROP TABLE takes the table's index with it; the new table
\* has no constraints.
Rebuild(db) == [rows |-> EmptyBag, constrained |-> FALSE, hostIndex |-> FALSE]

import_shops_helper(db, files, rebuild) ==
    LET st == ImportLoop([db |-> IF rebuild THEN Rebuild(db) ELSE db, skipped |-> 0],
                         files, 1)
    IN  [db |-> st.db, count |-> Len(files), skipped |-> st.skipped]

(***************************************************************************)
(* The state, and one action per command.  The group callback cli runs     *)
(* connect_db before every command, so every command acts on               *)
(* connect_db(Db).  last is the last command, its arguments and what it    *)
(* reported.                                                               *)
(***************************************************************************)
VARIABLES rows, constrained, hostIndex, last

vars == <<rows, constrained, hostIndex, last>>

Db == [rows |-> rows, constrained |-> constrained, hostIndex |-> hostIndex]

\* The store a command leaves behind.
SetDb(db) ==
    /\ rows' = db.rows
    /\ constrained' = db.constrained
    /\ hostIndex' = db.hostIndex

\* The model's bounds: the rows the table may hold, the files one import may
\* expand to, the leading "www." labels of an identifier.
MaxRows == 2

MaxFiles == 2

MaxWww == 2

\* The inputs of the commands.
Identifiers ==
    { <<"a","b",".","c","o","m">>,
      <<"h","t","t","p","s",":","/","/","w","w","w",".","A","B",".","c","o","m","/","p">>,
      <<"s","h","o","p",".","a","b",".","c","o","m">>,
      <<>>,
      <<"h","t","t","p",":","/","/">> }

SlugArgs ==
    { None,
      Some(<<>>),
      Some(<<" ">>),
      Some(<<" ","c","d">>),
      Some(<<"A"," ","b">>),
      Some(<<"a">>),
      Some(Repeat(<<"a">>, MaxSlugLen + 1)) }

NameArgs == { None, Some(<<"S">>) }

DeleteArgs == { <<"a","b">>, <<"c","d">>, <<"A"," ","b">>, <<"z","z">> }

\* The files an import pattern may expand to.
Files ==
    { [path |-> <<"a",".","c","s","v">>,
       rows |-> << Row(<<"a","b">>, <<"a","b",".","c","o","m">>, <<"S">>),
                   Row(<<"a","b">>, <<"c","d",".","i","o">>, <<>>) >>],
      [path |-> <<"b",".","j","s","o","n">>,
       rows |-> << Row(<<"A"," ","b">>, <<"a","b",".","c","o","m">>, <<>>) >>],
      [path |-> <<"c",".","t","x","t">>,
       rows |-> << Row(<<"c","d">>, <<"x">>, <<>>) >>] }

\* glob.glob: any list of distinct files, MaxFiles at most.
FileLists ==
    { fs \in UNION { [1..n -> Files] : n \in 0..MaxFiles } :
        \A i, j \in 1..Len(fs) : i # j => fs[i] # fs[j] }

Init ==
    /\ rows = EmptyStore.rows
    /\ constrained = EmptyStore.constrained
    /\ hostIndex = EmptyStore.hostIndex
    /\ last = [op |-> "init"]

\* Any command that only reads (shop ls, shop get): connect_db is all that
\* touches the store.
ConnectDb ==
    /\ SetDb(connect_db(Db))
    /\ last' = [op |-> "open"]

Create(identifier, slug, name) ==
    \E res \in { create_shop(connect_db(Db), identifier, slug, name) } :
        /\ BagCardinality(res.db.rows) <= MaxRows
        /\ SetDb(res.db)
        /\ last' = [op |-> "create", identifier |-> identifier, slug |-> slug,
                    err |-> res.err, newSlug |-> res.slug, hostname |-> res.hostname]

Delete(slug) ==
    \E res \in { delete_shop(connect_db(Db), slug) } :
        /\ SetDb(res.db)
        /\ last' = [op |-> "delete", slug |-> slug, deleted |-> res.deleted]

Import(files, rebuild) ==
    \E res \in { import_shops_helper(connect_db(Db), files, rebuild) } :
        /\ BagCardinality(res.db.rows) <= MaxRows
        /\ SetDb(res.db)
        /\ last' = [op |-> "import", files |-> files, rebuild |-> rebuild,
                    count |-> res.count, skipped |-> res.skipped]

Next ==
    \/ ConnectDb
    \/ \E identifier \in Identifiers, slug \in SlugArgs, name \in NameArgs :
            Create(identifier, slug, name)
    \/ \E slug \in DeleteArgs : Delete(slug)
    \/ \E files \in FileLists, rebuild \in BOOLEAN : Import(files, rebuild)

Spec == Init /\ [][Next]_vars

(***************************************************************************)
(* create and delete alone, from any store free of duplicates (with or     *)
(* without the table's constraints).                                       *)
(***************************************************************************)
RowUniverse == UNION { Range(f.rows) : f \in Files }

NoDuplicates(B) ==
    /\ \A r \in BagToSet(B) : CopiesIn(r, B) = 1
    /\ \A r1, r2 \in BagToSet(B) :
          r1 # r2 => r1.slug # r2.slug /\ r1.hostname # r2.hostname

DupFreeTables ==
    { SetToBag(S) : S \in { T \in SUBSET RowUniverse :
                              Cardinality(T) <= MaxRows /\ NoDuplicates(SetToBag(T)) } }

InitCD ==
    /\ rows \in DupFreeTables
    /\ constrained \in BOOLEAN
    /\ hostIndex \in BOOLEAN
    /\ constrained => hostIndex
    /\ last = [op |-> "init"]

NextCD ==
    \/ \E identifier \in Identifiers, slug \in SlugArgs, name \in NameArgs :
            Create(identifier, slug, name)
    \/ \E slug \in DeleteArgs : Delete(slug)

SpecCD == InitCD /\ [][NextCD]_vars

(***************************************************************************)
(* The hostname of an identifier, over a wider set of identifiers: a       *)
(* scheme or none, leading "www." labels, a host, a path or query.         *)
(***************************************************************************)
RECURSIVE Copies(_, _)
Copies(s, n) == IF n = 0 THEN <<>> ELSE s \o Copies(s, n - 1)

SchemeParts ==
    { <<>>, HttpPrefix, HttpsPrefix, <<"H","T","T","P",":","/","/">> }

WwwParts ==
    { Copies(w, n) : w \in { WwwPrefix, <<"W","W","W",".">> }, n \in 0..MaxWww }

HostParts ==
    { <<"a","b",".","c","o","m">>,
      <<"C","d",".","I","O">>,
      <<"s","h","o","p",".","a","b",".","c","o","m">>,
      <<"x">>,
      <<"[","a">>,
      <<>> }

TailParts == { <<>>, <<"/","p">>, <<"?","q">> }

WideIdentifiers ==
    { s \o w \o h \o t :
        s \in SchemeParts, w \in WwwParts, h \in HostParts, t \in TailParts }

ParseHostname(identifier) ==
    \E parsed \in { parse_hostname(identifier) } :
        /\ last' = [op |-> "hostname", identifier |-> identifier,
                    err |-> parsed.err, hostname |-> parsed.hostname]
        /\ UNCHANGED <<rows, constrained, hostIndex>>

NextHost == \E identifier \in WideIdentifiers : ParseHostname(identifier)

SpecHost == Init /\ [][NextHost]_vars

(***************************************************************************)
(* The claims.                                                             *)
(***************************************************************************)

\* C1: in every reachable state of the store (create, delete, open, import
\* with or without rebuild) no two shop records share a slug and no two
\* share a hostname.
StoreAlwaysUnique == NoDuplicates(rows)

\* Whether a create call's identifier and slug pass every validation step.
Validated(identifier, slug) ==
    /\ identifier # <<>>
    /\ is_valid_url(identifier)
    /\ resolve_slug(slug, canonical_hostname(identifier)).err = "none"
    /\ Len(resolve_slug(slug, canonical_hostname(identifier)).slug) \in MinSlugLen..MaxSlugLen

ConflictsWith(B, slug, hostname) ==
    \E r \in BagToSet(B) : r.slug = slug \/ r.hostname = hostname

\* C2: a create call whose identifier and slug pass validation fails with
\* DuplicateShop exactly when an existing record has the new record's slug
\* or its canonical hostname, and otherwise inserts the record (so a
\* variant of a stored identifier that normalizes to the same hostname
\* fails whatever slug it supplies).
CreateDuplicateExactly ==
    [][ (last'.op = "create" /\ Validated(last'.identifier, last'.slug)) =>
            \E h \in { canonical_hostname(last'.identifier) } :
            \E s \in { resolve_slug(last'.slug, h).slug } :
                /\ (last'.err = "DuplicateShop") <=> ConflictsWith(rows, s, h)
                /\ ~ConflictsWith(rows, s, h) =>
                      /\ last'.err = "none"
                      /\ \E name \in { n.val : n \in NameArgs } :
                            rows' = rows (+) SetToBag({Row(s, h, name)}) ]_vars

\* A second create of a variant (scheme, case, "www.") of a stored
\* identifier, with a slug no record has, refused for its hostname alone.
VariantOfStoredHostnameRefused ==
    /\ last.op = "create"
    /\ last.err = "DuplicateShop"
    /\ StartsWith(last.identifier, HttpsPrefix \o <<"w","w","w",".","A","B">>)
    /\ last.slug = Some(<<" ","c","d">>)
    /\ \A r \in BagToSet(rows) : r.slug # <<"c","d">>
    /\ \E r \in BagToSet(rows) : r.hostname = <<"a","b",".","c","o","m">>

\* C3: a create call that ends in an error leaves the stored records (and
\* the table) exactly as they were.
CreateErrorLeavesStore ==
    [][ (last'.op = "create" /\ last'.err # "none") =>
            rows' = rows /\ constrained' = constrained ]_vars

CreateFailedOnNonEmptyStore ==
    /\ last.op = "create"
    /\ last.err \in {"SlugLengthOutOfRange", "DuplicateShop"}
    /\ rows # EmptyBag

RECURSIVE SupportedRows(_, _)
SupportedRows(files, i) ==
    IF i > Len(files) THEN EmptyBag
    ELSE (IF Supported(files[i])
          THEN [r \in Range(files[i].rows) |->
                   Cardinality({k \in 1..Len(files[i].rows) : files[i].rows[k] = r})]
          ELSE EmptyBag) (+) SupportedRows(files, i + 1)

IsLowercase(s) == Lower(s) = s

NoSchemePrefix(s) == ~StartsWith(s, HttpPrefix) /\ ~StartsWith(s, HttpsPrefix)

\* C5 as claimed: the hostname of every valid identifier, whatever its
\* scheme, letter case and number of leading "www." labels, is lowercase,
\* has no scheme prefix and does not start with "www.".
HostnameNeverStartsWithWww ==
    (last.op = "hostname" /\ last.err = "none") =>
        /\ IsLowercase(last.hostname)
        /\ NoSchemePrefix(last.hostname)
        /\ ~StartsWith(last.hostname, WwwPrefix)

\* C5 amended: the hostname of every valid identifier is lowercase and has
\* no scheme prefix, and exactly one leading "www." is removed: the hostname
\* starts with "www." exactly when the identifier's network location starts
\* with two "www." labels, so it does not for at most one such label.
HostnameStripsOneWww ==
    (last.op = "hostname" /\ last.err = "none") =>
        /\ IsLowercase(last.hostname)
        /\ NoSchemePrefix(last.hostname)
        /\ StartsWith(last.hostname, WwwPrefix)
              <=> StartsWith(Lower(urlparse(WithScheme(last.identifier)).netloc),
                             WwwPrefix \o WwwPrefix)

\* An identifier with a scheme, capitals and one "www." label.
HostnameOfSchemeAndWww ==
    /\ last.op = "hostname"
    /\ last.err = "none"
    /\ last.identifier = HttpsPrefix \o <<"W","W","W",".","C","d",".","I","O","/","p">>
    /\ last.hostname = <<"c","d",".","i","o">>

Canonical(slug) ==
    /\ normalize_into_slug(slug) = slug
    /\ Len(slug) \in MinSlugLen..MaxSlugLen

\* C6: in every reachable state, after any create, delete and import, every
\* stored slug is canonical: it is its own normalization and has 2 to 128
\* characters.
StoredSlugsCanonical == \A r \in BagToSet(rows) : Canonical(r.slug)

\* C7: a create call with a valid identifier and a supplied slug that is
\* blank after trimming fails with EmptySlug, and inserts nothing.
BlankSlugRejected ==
    [][ ( /\ last'.op = "create"
         
          /\ parse_hostname(last'.identifier).err = "none"
          /\ last'.slug.some
          /\ Strip(last'.slug.val) = <<>> ) =>
            last'.err = "EmptySlug" /\ rows' = rows ]_vars

\* C8: delete(s) reports deleted exactly when a record with slug s existed;
\* afterwards none has slug s and every other record is as before; with no
\* such record the store is unchanged.
DeleteReportsExactly ==
    [][ (last'.op = "delete") =>
            /\ last'.deleted <=> (\E r \in BagToSet(rows) : r.slug = last'.slug)
            /\ \A r \in BagToSet(rows') : r.slug # last'.slug
            /\ \A r \in BagToSet(rows) \cup BagToSet(rows') :
                  r.slug # last'.slug => CopiesIn(r, rows') = CopiesIn(r, rows)
            /\ ~last'.deleted => rows' = rows
            /\ constrained' = constrained ]_vars

DeletedOneOfTwo ==
    /\ last.op = "delete"
    /\ last.deleted
    /\ BagCardinality(rows) = 1

RECURSIVE LoadFiles(_, _, _)
LoadFiles(db, files, i) ==
    IF i > Len(files) THEN db
    ELSE LoadFiles(LoadRows(db, files[i].rows, 1), files, i + 1)

\* C9: in an import of several files an unsupported file is skipped with a
\* warning, adds no rows and does not end the batch: the store is what
\* loading the .csv and .json files alone, in their order, makes of it
\* (on a table without constraints: every row of theirs is there), and the
\* import reports its file count.
UnsupportedFileSkipped ==
    [][ (last'.op = "import") =>
            \E base \in { IF last'.rebuild THEN Rebuild(Db) ELSE connect_db(Db) } :
                /\ last'.count = Len(last'.files)
                /\ last'.skipped =
                      Cardinality({i \in 1..Len(last'.files) : ~Supported(last'.files[i])})
                /\ rows' = LoadFiles(base, SelectSeq(last'.files, Supported), 1).rows
                /\ ~constrained' =>
                      rows' = base.rows (+) SupportedRows(last'.files, 1) ]_vars

\* An unsupported file first, a supported one after it, loaded.
LoadedAfterUnsupportedFile ==
    /\ last.op = "import"
    /\ last.count = 2
    /\ last.skipped = 1
    /\ ~Supported(last.files[1])
    /\ Supported(last.files[2])
    /\ \A k \in 1..Len(last.files[2].rows) : BagIn(last.files[2].rows[k], rows)
    /\ \A k \in 1..Len(last.files[1].rows) : ~BagIn(last.files[1].rows[k], rows)

\* C10: from any store without duplicates, with or without the table's
\* constraints, create and delete keep slugs and hostnames pairwise
\* distinct.
CreateDeleteKeepUnique == NoDuplicates(rows)

\* The pre-check of create refusing a duplicate on a table without
\* constraints.
PreCheckRefusedWithoutConstraints ==
    /\ ~constrained
    /\ last.op = "create"
    /\ last.err = "DuplicateShop"
    /\ BagCardinality(rows) = 2

====
